---- MODULE Spec2Model ----
(***************************************************************************)
(* State-machine model of MachInfo (AppleALC/kern_mach.cpp): locating the  *)
(* on-disk image, unwrapping its container, reading __LINKEDIT, computing  *)
(* the KASLR slide, resolving symbols and toggling CR0.WP.                  *)
(*                                                                         *)
(* Memory is word addressed.  A machine word has WordBits bits; the code   *)
(* uses 64-bit words, the model a narrower word so that TLC's integers can *)
(* hold it; all unsigned arithmetic is reduced modulo 2^WordBits.          *)
(***************************************************************************)
EXTENDS Integers, Sequences, FiniteSets, TLC

\* ------------------------------------------------------------------ bounds
WordBits == 16
MaxPaths == 2
\* init calls made on one handle
MaxInits == 1

Mod == 2 ^ WordBits
Add(a, b) == (a + b) % Mod
Sub(a, b) == (a - b + Mod) % Mod

\* ------------------------------------------------------- program constants
KERN_SUCCESS == 0
KERN_FAILURE == 5
EINVAL == 22
NULL == 0
\* sizeof(nlist_64) in words: {n_strx, n_type, n_sect, n_desc} and n_value
NlistSize == 2

\* ------------------------------------------------------ on-disk structures
\* A header-sized block as readMachHeader sees it.  magic is one of "MH64"
\* (MH_MAGIC_64), "FAT" (FAT_MAGIC), "COMP" (CompressedMagic), "BAD" (any
\* other tag) or "UNINIT" (the buffer was never written: indeterminate).
Hdr(m, c, a, img) == [magic |-> m, cmds |-> c, archs |-> a, image |-> img]

Cmd(cmd, name, vmaddr, fileoff, filesize, symoff, nsyms, stroff, uuid) ==
    [cmd |-> cmd, segname |-> name, vmaddr |-> vmaddr, fileoff |-> fileoff,
     filesize |-> filesize, symoff |-> symoff, nsyms |-> nsyms, stroff |-> stroff,
     uuid |-> uuid]
SegCmd(name, vmaddr, fileoff, filesize) ==
    Cmd("LC_SEGMENT_64", name, vmaddr, fileoff, filesize, 0, 0, 0, <<>>)
SymtabCmd(symoff, nsyms, stroff) ==
    Cmd("LC_SYMTAB", "", 0, 0, 0, symoff, nsyms, stroff, <<>>)
UuidCmd(lo, hi) == Cmd("LC_UUID", "", 0, 0, 0, 0, 0, 0, <<lo, hi>>)
Arch(cputype, offset) == [cputype |-> cputype, offset |-> offset]

UninitHeader == Hdr("UNINIT", <<>>, <<>>, 0)
BadHeader == Hdr("BAD", <<>>, <<>>, 0)

\* __LINKEDIT of the sample images: three nlist_64 records followed by the
\* string table "\0foo\0fo\0".  Records: "foo" -> 0x1010, "fo" -> 0x1020,
\* "foo" -> 0xF030 (a duplicate name).
LinkeditWords == <<1, 4112, 5, 4128, 1, 61488, 0, 102, 111, 111, 0, 102, 111, 0>>

\* uuid (7,9), __TEXT at 0x1000, __LINKEDIT at file offset 2, symbols at 2, strings at 8
GoodHeader ==
    Hdr("MH64", <<UuidCmd(7, 9), SegCmd("__TEXT", 4096, 0, 2), SymtabCmd(2, 3, 8),
                     SegCmd("__LINKEDIT", 0, 2, 14)>>, <<>>, 0)
\* uuid (7,8), __TEXT at 0x6000, symbol table offset below the __LINKEDIT offset
SymUnderHeader ==
    Hdr("MH64", <<UuidCmd(7, 8), SegCmd("__LINKEDIT", 0, 4, 12), SegCmd("__TEXT", 24576, 0, 2),
                     SymtabCmd(2, 3, 10)>>, <<>>, 0)
\* no LC_UUID, no __TEXT, string table offset below the __LINKEDIT offset
StrUnderHeader ==
    Hdr("MH64", <<SegCmd("__LINKEDIT", 0, 2, 14), SymtabCmd(2, 3, 1)>>, <<>>, 0)
\* an empty symbol table
EmptySymHeader ==
    Hdr("MH64", <<UuidCmd(7, 9), SegCmd("__TEXT", 4096, 0, 2), SegCmd("__LINKEDIT", 0, 2, 14),
                     SymtabCmd(8, 0, 8)>>, <<>>, 0)
\* a __LINKEDIT that extends past the end of the file
TruncatedHeader ==
    Hdr("MH64", <<UuidCmd(7, 9), SegCmd("__TEXT", 4096, 0, 2), SegCmd("__LINKEDIT", 0, 2, 20),
                     SymtabCmd(2, 3, 8)>>, <<>>, 0)
FatSelfHeader == Hdr("FAT", <<>>, <<Arch("X86_64", 0)>>, 0)
FatOtherHeader == Hdr("FAT", <<>>, <<Arch("I386", 0)>>, 0)

SampleData == <<0, 0>> \o LinkeditWords

\* Decompressed images (what decompressData returns), by id; NULL is failure.
\* Image 2 begins with the compressed-container tag again.
Images ==
    [k \in 1..2 |->
        CASE k = 1 -> [hdr |-> GoodHeader, data |-> SampleData]
          [] OTHER -> [hdr |-> Hdr("COMP", <<>>, <<>>, 2), data |-> <<>>]]
ImageIds == DOMAIN Images

\* Files by vnode id: the header-sized block found at each offset that
\* readMachHeader may be sent to, and the file's words for positioned reads.
Files ==
    [f \in 1..10 |->
        CASE f = 1 -> [hdrs |-> (0 :> GoodHeader), data |-> SampleData]
          [] f = 2 -> [hdrs |-> (0 :> SymUnderHeader), data |-> SampleData]
          [] f = 3 -> [hdrs |-> (0 :> Hdr("FAT", <<>>,
                                          <<Arch("I386", 0), Arch("X86_64", 1), Arch("X86_64", 0)>>, 0)
                                 @@ 1 :> StrUnderHeader),
                       data |-> <<0>> \o SampleData]
          [] f = 4 -> [hdrs |-> (0 :> FatSelfHeader), data |-> <<>>]
          [] f = 5 -> [hdrs |-> (0 :> Hdr("COMP", <<>>, <<>>, 1)), data |-> <<>>]
          [] f = 6 -> [hdrs |-> (0 :> Hdr("COMP", <<>>, <<>>, 2)), data |-> <<>>]
          [] f = 7 -> [hdrs |-> (0 :> FatOtherHeader), data |-> <<>>]
          [] f = 8 -> [hdrs |-> (0 :> EmptySymHeader), data |-> SampleData]
          [] f = 9 -> [hdrs |-> (0 :> BadHeader), data |-> <<>>]
          [] OTHER -> [hdrs |-> (0 :> TruncatedHeader), data |-> SampleData]]
FileIds == DOMAIN Files

\* What a header buffer of indeterminate content may turn out to hold: an
\* unsupported magic, a 64-bit header, a compressed container.
GarbageHeaders ==
    {BadHeader, GoodHeader, Hdr("COMP", <<>>, <<>>, 1)}

\* --------------------------------------------------------- running memory
\* Mach-O headers mapped in the running system, by address: the kernel at
\* 0x5000, a kext at 0x7000, a header whose __TEXT has vmaddr 0 at 0x7400
\* and a header without __TEXT at 0x7800.
RunningMemory ==
    20480 :> Hdr("MH64", <<SegCmd("__TEXT", 20480, 0, 2), UuidCmd(7, 9)>>, <<>>, 0)
    @@ 28672 :> Hdr("MH64", <<SegCmd("__DATA", 28800, 0, 2), SegCmd("__TEXT", 28672, 0, 2)>>, <<>>, 0)
    @@ 29696 :> Hdr("MH64", <<SegCmd("__TEXT", 0, 0, 2)>>, <<>>, 0)
    @@ 30720 :> Hdr("MH64", <<SegCmd("__DATA", 30800, 0, 2)>>, <<>>, 0)
MappedAddrs == DOMAIN RunningMemory
\* Where the IDT may place the interrupt 0x80 stub: above or below the kernel header.
Int80Addrs == {2048, 22528}

\* ------------------------------------------------------------ pure helpers
\* MachInfo::processMachHeader: one pass over the load commands; f holds the
\* handle's fields the pass may overwrite.
RECURSIVE processMachHeader(_, _)
processMachHeader(cmds, f) ==
    IF cmds = <<>> THEN f
    ELSE LET c == Head(cmds)
             g == IF c.cmd = "LC_SEGMENT_64"
                  THEN IF c.segname = "__TEXT"
                       THEN [f EXCEPT !.disk_text_addr = c.vmaddr]
                       ELSE IF c.segname = "__LINKEDIT"
                            THEN [f EXCEPT !.linkedit_fileoff = c.fileoff,
                                           !.linkedit_size = c.filesize]
                            ELSE f
                  ELSE IF c.cmd = "LC_SYMTAB"
                       THEN [f EXCEPT !.symboltable_fileoff = c.symoff,
                                      !.symboltable_nr_symbols = c.nsyms,
                                      !.stringtable_fileoff = c.stroff]
                       ELSE f
         IN processMachHeader(Tail(cmds), g)

\* MachInfo::getUUID: the uuid of the first LC_UUID command, <<>> for nullptr.
RECURSIVE getUUID(_)
getUUID(cmds) ==
    IF cmds = <<>> THEN <<>>
    ELSE IF Head(cmds).cmd = "LC_UUID" THEN Head(cmds).uuid
    ELSE getUUID(Tail(cmds))

\* The signature findKernelBase looks for at an address: MH_MAGIC_64 followed
\* by a first load command whose segname reads "__TEXT".
KernelSignatureAt(a) ==
    /\ a \in MappedAddrs
    /\ RunningMemory[a].magic = "MH64"
    /\ Len(RunningMemory[a].cmds) > 0
    /\ RunningMemory[a].cmds[1].segname = "__TEXT"

\* MachInfo::findKernelBase: scan downwards from the int 0x80 stub; the first
\* address carrying the signature, 0 when the scan reaches address 0.
findKernelBase(int80) ==
    LET hits == {a \in MappedAddrs : a > 0 /\ a <= int80 /\ KernelSignatureAt(a)}
    IN IF hits = {} THEN 0 ELSE CHOOSE a \in hits : \A b \in hits : b <= a

\* MachInfo::isCurrentKernel; getUUID(nullptr) is nullptr.
isCurrentKernel(kernelHeader, int80) ==
    LET kernelBase == findKernelBase(int80)
        uuid1 == getUUID(kernelHeader.cmds)
        uuid2 == IF kernelBase = 0 THEN <<>> ELSE getUUID(RunningMemory[kernelBase].cmds)
    IN uuid1 # <<>> /\ uuid2 # <<>> /\ uuid1[1] = uuid2[1] /\ uuid1[2] = uuid2[2]

\* The text segment search of getRunningAddresses: the vmaddr of the first
\* LC_SEGMENT_64 named __TEXT, -1 when the loop ends without one.
RECURSIVE RunningText(_)
RunningText(cmds) ==
    IF cmds = <<>> THEN -1
    ELSE IF Head(cmds).cmd = "LC_SEGMENT_64" /\ Head(cmds).segname = "__TEXT"
         THEN Head(cmds).vmaddr
         ELSE RunningText(Tail(cmds))

\* How one positioned read may go: "uio_null" (uio_create returned null),
\* "addiov_err", "read_err" (VNOP_READ failed) or "ok" (VNOP_READ returned 0).
IoOutcomes == {"ok", "uio_null", "addiov_err", "read_err"}

\* MachInfo::readFileData's return value; resid is what uio_resid reports
\* after a read that VNOP_READ completed.
readFileData(io, resid) ==
    CASE io = "uio_null" -> 0
      [] io = "addiov_err" -> -1
      [] io = "read_err" -> 5
      [] OTHER -> IF resid # 0 THEN EINVAL ELSE 0

\* Words a readFileData call moved into its buffer.
Transferred(io, sz, resid) == IF io = "ok" THEN sz - resid ELSE 0

\* Bytes left over when sz words are read at off from a file of len words.
Resid(len, off, sz) ==
    IF off + sz <= len THEN 0 ELSE IF off >= len THEN sz ELSE off + sz - len

\* The words [off, off+sz) of data (0-based offsets).
Slice(data, off, sz) == [k \in 1..sz |-> data[off + k]]

\* An allocated buffer; valid is FALSE while its content is indeterminate
\* (never written, partly written, or copied from outside its source).
Buf(valid, data) == [ptr |-> 1, valid |-> valid, data |-> data]
\* nullptr
NullBuf == [ptr |-> NULL, valid |-> FALSE, data |-> <<>>]

\* One word read through a pointer into buf; -1 stands for a read outside
\* the allocation or of indeterminate content (undefined behaviour).
Peek(buf, idx) ==
    IF buf.valid /\ idx >= 0 /\ idx < Len(buf.data) THEN buf.data[idx + 1] ELSE -1

\* strncmp(symbol, buf + q, n) from character k on: 0 equal, 1 different,
\* -1 when it read outside the buffer.
RECURSIVE strncmp(_, _, _, _, _)
strncmp(symbol, buf, q, k, n) ==
    IF k >= n THEN 0
    ELSE LET c1 == IF k < Len(symbol) THEN symbol[k + 1] ELSE 0
             c2 == Peek(buf, q + k)
         IN IF c2 = -1 THEN -1
            ELSE IF c1 # c2 THEN 1
            ELSE IF c1 = 0 THEN 0
            ELSE strncmp(symbol, buf, q, k + 1, n)

SymbolMatchesPrefix(symbol, buf, q) == strncmp(symbol, buf, q, 0, Len(symbol))
\* The comparison of solveSymbol: strlen(symbol)+1 characters.
SymbolMatches(symbol, buf, q) == strncmp(symbol, buf, q, 0, Len(symbol) + 1)

\* The search loop of solveSymbol from record i on.  ub marks a read outside
\* the buffer, touched whether the buffer was read at all.
RECURSIVE SymbolScan(_, _, _, _, _, _, _)
SymbolScan(buf, symbolOff, stringOff, nsyms, slide, symbol, i) ==
    IF i >= nsyms THEN [ret |-> 0, ub |-> FALSE, touched |-> i > 0]
    ELSE LET p == symbolOff + i * NlistSize
             n_strx == Peek(buf, p)
             m == IF n_strx = -1 THEN -1 ELSE SymbolMatches(symbol, buf, stringOff + n_strx)
             n_value == Peek(buf, p + 1)
         IN IF m = -1 \/ (m = 0 /\ n_value = -1)
            THEN [ret |-> 0, ub |-> TRUE, touched |-> TRUE]
            ELSE IF m = 0
            THEN [ret |-> Add(n_value, slide), ub |-> FALSE, touched |-> TRUE]
            ELSE SymbolScan(buf, symbolOff, stringOff, nsyms, slide, symbol, i + 1)

\* ------------------------------------------------------------------ state
VARIABLES
    \* the handle (MachInfo's fields)
    isKernel, fat_offset, disk_text_addr, running_text_addr,
    linkedit_fileoff, linkedit_size, symboltable_fileoff,
    symboltable_nr_symbols, stringtable_fileoff,
    linkedit_buf, file_buf, running_mh, kaslr_slide, kaslr_slide_set, memory_size,
    \* the processor: the bits set in CR0 and the interrupt flag
    cr0, intr_enabled,
    \* control: which call is running and where it stands
    pc,
    \* locals of init and readMachHeader; io_faulted tells whether an
    \* allocation or a read of the running readMachHeader call went wrong
    num, i, vnode, found, machHeader, off, readError, io_faulted,
    \* locals of setKernelWriting
    skw_arg, skw_enable, skw_res,
    \* bookkeeping of the running init call: resources held per candidate
    \* index, and what became of each candidate probed so far
    held, log,
    \* the operands kaslr_slide was computed from
    slide_src,
    \* the last call that returned, with its result
    last,
    \* init calls made so far
    inits

diskVars == <<fat_offset, disk_text_addr, linkedit_fileoff, linkedit_size,
              symboltable_fileoff, symboltable_nr_symbols, stringtable_fileoff>>
parsedVars == <<disk_text_addr, linkedit_fileoff, linkedit_size,
                symboltable_fileoff, symboltable_nr_symbols, stringtable_fileoff>>
runVars == <<running_text_addr, running_mh, kaslr_slide, kaslr_slide_set,
             memory_size, slide_src>>
envVars == <<isKernel>>
cpuVars == <<cr0, intr_enabled>>
initLocals == <<num, i, vnode, found, machHeader, off, readError, io_faulted, held, log>>
skwLocals == <<skw_arg, skw_enable, skw_res>>
vars == <<diskVars, runVars, envVars, cpuVars, initLocals, skwLocals,
          linkedit_buf, file_buf, pc, last, inits>>

NoHeld == [vnodes |-> {}, ctxts |-> {}, bufs |-> {}, cur |-> -1]
NoLinkedit == [path |-> "none", off |-> 0, size |-> 0, transferred |-> 0]

NoCall == [op |-> "none", ret |-> 0]

\* The handle as constructed, nothing running.
InitHandle ==
    /\ isKernel \in BOOLEAN
    /\ fat_offset = 0 /\ disk_text_addr = 0 /\ running_text_addr = 0
    /\ linkedit_fileoff = 0 /\ linkedit_size = 0 /\ symboltable_fileoff = 0
    /\ symboltable_nr_symbols = 0 /\ stringtable_fileoff = 0
    /\ linkedit_buf = NullBuf /\ file_buf = NULL /\ running_mh = NULL
    /\ kaslr_slide = 0 /\ kaslr_slide_set = FALSE /\ memory_size = 0
    /\ pc = "idle"
    /\ num = 0 /\ i = 0 /\ vnode = NULL /\ found = FALSE
    /\ machHeader = UninitHeader /\ off = 0 /\ readError = KERN_SUCCESS
    /\ io_faulted = FALSE
    /\ skw_arg = FALSE /\ skw_enable = FALSE /\ skw_res = KERN_SUCCESS
    /\ held = NoHeld /\ log = <<>>
    /\ slide_src = [static |-> 0, runtime |-> 0, base |-> 0]
    /\ last = NoCall
    /\ inits = 0

\* CR0 bits the model tells apart.
CR0Bits == {"PE", "WP", "AM", "PG"}

\* The handle's operations run with the processor in its normal state.
Init ==
    /\ InitHandle
    /\ cr0 = CR0Bits /\ intr_enabled = TRUE

\* setKernelWriting may find CR0 and the interrupt flag in any state.
InitCPU ==
    /\ InitHandle
    /\ cr0 \in SUBSET CR0Bits /\ intr_enabled \in BOOLEAN

\* ------------------------------------------------------------------- init
\* init returns: its locals die, the call's bookkeeping is kept in last.
InitReturn(ret, n, fnd, winner, h, lg, le) ==
    /\ pc' = "idle"
    /\ num' = 0 /\ i' = 0 /\ vnode' = NULL /\ found' = FALSE
    /\ machHeader' = UninitHeader /\ off' = 0 /\ readError' = KERN_SUCCESS
    /\ io_faulted' = FALSE
    /\ held' = NoHeld /\ log' = <<>>
    /\ last' = [op |-> "init", ret |-> ret, num |-> n, found |-> fnd, winner |-> winner,
                held |-> h, log |-> lg, linkedit |-> le]

\* init up to the candidate loop: the credential check and the header
\* buffer allocation.  n is the length of paths[]; paths[i] itself is drawn
\* when the loop reads it.
init_enter(n, early) ==
    /\ pc = "idle"
    /\ inits < MaxInits
    /\ inits' = inits + 1
    /\ IF early # "ok"
       THEN InitReturn(KERN_FAILURE, n, FALSE, -1, NoHeld, <<>>, NoLinkedit)
       ELSE /\ pc' = "init_loop"
            /\ num' = n /\ i' = 0 /\ vnode' = NULL /\ found' = FALSE
            /\ machHeader' = UninitHeader /\ off' = 0 /\ readError' = KERN_SUCCESS
            /\ io_faulted' = FALSE
            /\ held' = NoHeld /\ log' = <<>>
            /\ last' = NoCall
    /\ UNCHANGED <<diskVars, runVars, envVars, cpuVars, skwLocals, linkedit_buf, file_buf>>

\* The for statement's increment.
NextCandidate(k) == k + 1

\* One loop iteration up to the readMachHeader call: vfs_context_create and
\* vnode_lookup of paths[i] = p (p = NULL: the path cannot be opened).
init_lookup(p) ==
    /\ pc = "init_loop"
    /\ i < num
    /\ IF p = NULL
       THEN /\ vnode' = NULL
            /\ log' = Append(log, [idx |-> i, outcome |-> "open_failed"])
            /\ held' = held
            /\ i' = NextCandidate(i)
            /\ UNCHANGED <<pc, off>>
       ELSE /\ vnode' = p
            /\ held' = [held EXCEPT !.vnodes = @ \cup {i}, !.ctxts = @ \cup {i}]
            /\ off' = 0
            /\ pc' = "rmh_read"
            /\ UNCHANGED <<i, log>>
    /\ UNCHANGED <<inits, diskVars, runVars, envVars, cpuVars, skwLocals, linkedit_buf, file_buf,
                   num, found, machHeader, readError, io_faulted, last>>

\* readMachHeader returns to init with result r.
RmhReturn(r) == readError' = r /\ pc' = "init_cand"

\* readMachHeader: the header read at off.  A read that reports success
\* without filling the buffer leaves whatever the buffer held.
readMachHeader_read(io) ==
    /\ pc = "rmh_read"
    /\ LET hdrs == Files[vnode].hdrs
           resid == IF off \in DOMAIN hdrs THEN 0 ELSE 1
           error == readFileData(io, resid)
           left == IF io = "ok" /\ resid = 0 THEN {hdrs[off]}
                   ELSE IF io \in {"uio_null", "addiov_err"} /\ machHeader.magic # "UNINIT"
                        THEN {machHeader}
                        ELSE IF error = 0 THEN GarbageHeaders ELSE {UninitHeader}
       IN /\ machHeader' \in left
          /\ io_faulted' = (io_faulted \/ io # "ok")
          /\ IF error # 0
             THEN RmhReturn(KERN_FAILURE)
             ELSE pc' = "rmh_switch" /\ UNCHANGED readError
    /\ UNCHANGED <<inits, diskVars, runVars, envVars, cpuVars, skwLocals, linkedit_buf, file_buf,
                   num, i, vnode, found, off, held, log, last>>

\* case MH_MAGIC_64
readMachHeader_mh64 ==
    /\ pc = "rmh_switch"
    /\ machHeader.magic = "MH64"
    /\ fat_offset' = off
    /\ RmhReturn(KERN_SUCCESS)
    /\ UNCHANGED <<inits, parsedVars, runVars, envVars, cpuVars, skwLocals, linkedit_buf, file_buf,
                   num, i, vnode, found, machHeader, off, io_faulted, held, log, last>>

\* Index of the first fat_arch for CPU_TYPE_X86_64, 0 when there is none.
FirstX86(archs) ==
    LET hits == {k \in 1..Len(archs) : archs[k].cputype = "X86_64"}
    IN IF hits = {} THEN 0 ELSE CHOOSE k \in hits : \A j \in hits : k <= j

\* case FAT_MAGIC: the call on the chosen architecture's offset.
readMachHeader_fat ==
    /\ pc = "rmh_switch"
    /\ machHeader.magic = "FAT"
    /\ LET k == FirstX86(machHeader.archs)
       IN IF k = 0
          THEN RmhReturn(KERN_FAILURE) /\ UNCHANGED off
          ELSE off' = machHeader.archs[k].offset /\ pc' = "rmh_read" /\ UNCHANGED readError
    /\ UNCHANGED <<inits, diskVars, runVars, envVars, cpuVars, skwLocals, linkedit_buf, file_buf,
                   num, i, vnode, found, machHeader, io_faulted, held, log, last>>

\* case CompressedMagic: allocate, read the payload, decompress, and go
\* round the loop again on the decompressed image's header.
readMachHeader_comp(alloc, io) ==
    /\ pc = "rmh_switch"
    /\ machHeader.magic = "COMP"
    /\ io_faulted' = (io_faulted \/ ~alloc \/ io # "ok")
    /\ IF ~alloc \/ readFileData(io, 0) # KERN_SUCCESS
       THEN RmhReturn(KERN_FAILURE) /\ UNCHANGED <<file_buf, machHeader, held>>
       ELSE \E img \in (IF io = "ok" THEN {machHeader.image} ELSE {NULL} \cup ImageIds) :
               /\ file_buf' = img
               /\ IF img # NULL
                  THEN /\ machHeader' = Images[img].hdr
                       /\ held' = [held EXCEPT !.bufs = @ \cup {i}, !.cur = i]
                       /\ UNCHANGED <<pc, readError>>
                  ELSE RmhReturn(KERN_FAILURE) /\ UNCHANGED <<machHeader, held>>
    /\ UNCHANGED <<inits, diskVars, runVars, envVars, cpuVars, skwLocals, linkedit_buf,
                   num, i, vnode, found, off, log, last>>

\* default: an unsupported magic
readMachHeader_default ==
    /\ pc = "rmh_switch"
    /\ machHeader.magic \notin {"MH64", "FAT", "COMP"}
    /\ RmhReturn(KERN_FAILURE)
    /\ UNCHANGED <<inits, diskVars, runVars, envVars, cpuVars, skwLocals, linkedit_buf, file_buf,
                   num, i, vnode, found, machHeader, off, io_faulted, held, log, last>>

\* The identity test of the loop: a primary image must be the running one.
RejectsNothing(isK, hdr, int80) == FALSE
Rejects(isK, hdr, int80) == isK /\ ~isCurrentKernel(hdr, int80)

\* The rest of the loop iteration, after readMachHeader returned; int80 is
\* what findKernelBase reads from the IDT.  On the way to the next candidate
\* the dead locals are cleared and the header buffer, which the next read
\* overwrites, counts as indeterminate.
init_candidate(int80) ==
    /\ pc = "init_cand"
    /\ IF readError = KERN_SUCCESS /\ ~Rejects(isKernel, machHeader, int80)
       THEN /\ found' = TRUE
            /\ log' = Append(log, [idx |-> i, outcome |-> "accepted"])
            /\ pc' = "init_found"
            /\ UNCHANGED <<i, held, vnode, machHeader, off, readError, io_faulted>>
       ELSE /\ IF readError = KERN_SUCCESS
               THEN /\ held' = [held EXCEPT !.vnodes = @ \ {i}, !.ctxts = @ \ {i}]
                    /\ log' = Append(log, [idx |-> i, outcome |-> "mismatch"])
               ELSE /\ held' = [held EXCEPT !.ctxts = @ \ {i}]
                    /\ log' = Append(log, [idx |-> i, outcome |-> "parse_failed"])
            /\ i' = NextCandidate(i)
            /\ pc' = "init_loop"
            /\ vnode' = NULL /\ machHeader' = UninitHeader /\ off' = 0
            /\ readError' = KERN_SUCCESS /\ io_faulted' = FALSE
            /\ UNCHANGED found
    /\ UNCHANGED <<inits, diskVars, runVars, envVars, cpuVars, skwLocals, linkedit_buf, file_buf,
                   num, last>>

\* MachInfo::readLinkedit on vnode vn: the allocation, then either the
\* positioned read or the copy out of the decompressed file.  Yields the
\* result, the new linkedit_buf and a record of the read.
readLinkedit(alloc, io, size, fileoff, fat_off, fbuf, vn) ==
    IF ~alloc
    THEN [ret |-> KERN_FAILURE, buf |-> NullBuf,
          le |-> [path |-> "nomem", off |-> 0, size |-> size, transferred |-> 0]]
    ELSE IF fbuf = NULL
    THEN LET o == Add(fat_off, fileoff)
             data == Files[vn].data
             resid == Resid(Len(data), o, size)
             error == readFileData(io, resid)
             moved == Transferred(io, size, resid)
         IN [ret |-> IF error # 0 THEN KERN_FAILURE ELSE KERN_SUCCESS,
             buf |-> IF moved = size THEN Buf(TRUE, Slice(data, o, size))
                     ELSE Buf(FALSE, <<>>),
             le |-> [path |-> "file", off |-> o, size |-> size, transferred |-> moved]]
    ELSE LET data == Images[fbuf].data
         IN [ret |-> KERN_SUCCESS,
             buf |-> IF fileoff + size <= Len(data) THEN Buf(TRUE, Slice(data, fileoff, size))
                     ELSE Buf(FALSE, <<>>),
             le |-> [path |-> "mem", off |-> fileoff, size |-> size, transferred |-> 0]]

\* The handle's fields processMachHeader may write, as a record.
ParsedFields ==
    [disk_text_addr |-> disk_text_addr, linkedit_fileoff |-> linkedit_fileoff,
     linkedit_size |-> linkedit_size, symboltable_fileoff |-> symboltable_fileoff,
     symboltable_nr_symbols |-> symboltable_nr_symbols,
     stringtable_fileoff |-> stringtable_fileoff]

\* init after the loop: give up, or parse the load commands, read
\* __LINKEDIT and release the winner's context, vnode and file buffer.
init_finish(alloc, io) ==
    /\ \/ pc = "init_loop" /\ i >= num
       \/ pc = "init_found"
    /\ IF ~found
       THEN /\ InitReturn(KERN_FAILURE, num, FALSE, -1, held, log, NoLinkedit)
            /\ UNCHANGED <<parsedVars, linkedit_buf, file_buf>>
       ELSE LET f == processMachHeader(machHeader.cmds, ParsedFields)
                wanted == f.linkedit_fileoff # 0 /\ f.symboltable_fileoff # 0
                r == readLinkedit(alloc, io, f.linkedit_size, f.linkedit_fileoff,
                                  fat_offset, file_buf, vnode)
                h == [held EXCEPT !.ctxts = @ \ {i}, !.vnodes = @ \ {i},
                                  !.bufs = IF file_buf # NULL THEN @ \ {held.cur} ELSE @,
                                  !.cur = IF file_buf # NULL THEN -1 ELSE @]
            IN /\ disk_text_addr' = f.disk_text_addr
               /\ linkedit_fileoff' = f.linkedit_fileoff
               /\ linkedit_size' = f.linkedit_size
               /\ symboltable_fileoff' = f.symboltable_fileoff
               /\ symboltable_nr_symbols' = f.symboltable_nr_symbols
               /\ stringtable_fileoff' = f.stringtable_fileoff
               /\ linkedit_buf' = IF wanted THEN r.buf ELSE linkedit_buf
               /\ file_buf' = NULL
               /\ InitReturn(IF wanted THEN r.ret ELSE KERN_FAILURE, num, TRUE, i, h, log,
                             IF wanted THEN r.le ELSE NoLinkedit)
    /\ UNCHANGED <<inits, fat_offset, runVars, envVars, cpuVars, skwLocals>>

\* ----------------------------------------------------------------- deinit
deinit ==
    /\ pc = "idle"
    /\ linkedit_buf' = NullBuf
    /\ last' = [op |-> "deinit", ret |-> 0]
    /\ UNCHANGED <<inits, diskVars, runVars, envVars, cpuVars, initLocals, skwLocals, file_buf, pc>>

\* ---------------------------------------------------- getRunningAddresses
\* The slide when no base was supplied.
SlideOf(running, disk) == Sub(running, disk)

\* The early return on a known slide.
SlideAlreadyKnownNever(known) == FALSE
SlideAlreadyKnown(known) == known

getRunningAddresses(slide, size, int80) ==
    /\ pc = "idle"
    /\ IF SlideAlreadyKnown(kaslr_slide_set)
       THEN /\ last' = [op |-> "getRunningAddresses", ret |-> KERN_SUCCESS, slide |-> slide,
                        discovery |-> FALSE, headerRead |-> FALSE]
            /\ UNCHANGED runVars
       ELSE LET base == IF slide # 0 THEN slide ELSE findKernelBase(int80)
                text == IF base # 0 THEN RunningText(RunningMemory[base].cmds) ELSE -1
                rta == IF text # -1 THEN text ELSE running_text_addr
                rmh == IF text # -1 THEN base ELSE running_mh
                ok == rta # 0 /\ rmh # NULL
            IN /\ memory_size' = IF size > 0 THEN size ELSE memory_size
               /\ running_text_addr' = rta
               /\ running_mh' = rmh
               /\ kaslr_slide' = IF ~ok THEN kaslr_slide
                                 ELSE IF slide = 0 THEN SlideOf(rta, disk_text_addr) ELSE slide
               /\ kaslr_slide_set' = ok
               /\ slide_src' = IF ok THEN [static |-> disk_text_addr, runtime |-> rta,
                                           base |-> slide]
                               ELSE slide_src
               /\ last' = [op |-> "getRunningAddresses",
                           ret |-> IF ok THEN KERN_SUCCESS ELSE KERN_FAILURE, slide |-> slide,
                           discovery |-> (slide = 0), headerRead |-> (base # 0)]
    /\ UNCHANGED <<inits, diskVars, envVars, cpuVars, initLocals, skwLocals, linkedit_buf, file_buf, pc>>

\* ------------------------------------------------------------ solveSymbol
\* The names asked for: "foo", "fo" and "b".
Symbols == {<<102, 111, 111>>, <<102, 111>>, <<98>>}
\* What a call may return after a read outside the buffer.
UBValues == {0, Mod - 1}

NoScan == [ret |-> 0, ub |-> FALSE, touched |-> FALSE]

\* The three early returns of solveSymbol.
PreconditionsUnmetIgnoringSlide(buf, symoff, known) == buf.ptr = NULL \/ symoff = 0
PreconditionsUnmet(buf, symoff, known) == buf.ptr = NULL \/ symoff = 0 \/ ~known

\* "if (symbolOff > symboltable_fileoff) return 0": the unsigned difference
\* exceeds the minuend exactly when the subtraction wrapped.
UnderflowsNever(fileoff, base) == FALSE
Underflows(fileoff, base) == Sub(fileoff, base) > fileoff

\* MachInfo::solveSymbol on the handle's current state.
solveSymbolResult(symbol) ==
    IF PreconditionsUnmet(linkedit_buf, symboltable_fileoff, kaslr_slide_set) THEN NoScan
    ELSE IF Underflows(symboltable_fileoff, linkedit_fileoff) THEN NoScan
    ELSE IF Underflows(stringtable_fileoff, linkedit_fileoff) THEN NoScan
    ELSE SymbolScan(linkedit_buf, Sub(symboltable_fileoff, linkedit_fileoff),
                    Sub(stringtable_fileoff, linkedit_fileoff),
                    symboltable_nr_symbols, kaslr_slide, symbol, 0)

solveSymbol(symbol) ==
    /\ pc = "idle"
    /\ LET r == solveSymbolResult(symbol)
       IN \E v \in (IF r.ub THEN UBValues ELSE {r.ret}) :
             last' = [op |-> "solveSymbol", ret |-> v, symbol |-> symbol,
                      touched |-> r.touched, ub |-> r.ub]
    /\ UNCHANGED <<inits, diskVars, runVars, envVars, cpuVars, initLocals, skwLocals,
                   linkedit_buf, file_buf, pc>>

\* ------------------------------------------------------- setKernelWriting
\* "if (enable) cli"
setKernelWriting_enter(enable) ==
    /\ pc = "idle"
    /\ skw_arg' = enable /\ skw_enable' = enable /\ skw_res' = KERN_SUCCESS
    /\ intr_enabled' = IF enable THEN FALSE ELSE intr_enabled
    /\ pc' = "skw_wp"
    /\ last' = NoCall
    /\ UNCHANGED <<inits, diskVars, runVars, envVars, initLocals, linkedit_buf, file_buf, cr0>>

\* MachInfo::setWPBit(enable): CR0 after set_cr0 (written says whether the
\* processor took the write) and the verdict of the re-read.
setWPBit(enable, reg, written) ==
    LET wanted == IF enable THEN reg \cup {"WP"} ELSE reg \ {"WP"}
        now == IF written THEN wanted ELSE reg
    IN [cr0 |-> now,
        ret |-> IF (("WP" \in now) /\ enable) \/ (("WP" \notin now) /\ ~enable)
                THEN KERN_SUCCESS ELSE KERN_FAILURE]

\* The call setWPBit(!enable) and the handling of its failure.
setKernelWriting_setwp(written) ==
    /\ pc = "skw_wp"
    /\ LET r == setWPBit(~skw_enable, cr0, written)
       IN /\ cr0' = r.cr0
          /\ IF r.ret # KERN_SUCCESS
             THEN skw_enable' = FALSE /\ skw_res' = KERN_FAILURE
             ELSE UNCHANGED <<skw_enable, skw_res>>
    /\ pc' = "skw_sti"
    /\ UNCHANGED <<inits, diskVars, runVars, envVars, initLocals, linkedit_buf, file_buf,
                   intr_enabled, skw_arg, last>>

\* Whether the closing "sti" runs.
RestoresInterruptsOnlyOnDisable(arg, enable) == ~arg
RestoresInterrupts(arg, enable) == ~enable

\* "if (!enable) sti" and the return.
setKernelWriting_exit ==
    /\ pc = "skw_sti"
    /\ intr_enabled' = IF RestoresInterrupts(skw_arg, skw_enable) THEN TRUE ELSE intr_enabled
    /\ last' = [op |-> "setKernelWriting", ret |-> skw_res, enable |-> skw_arg]
    /\ skw_arg' = FALSE /\ skw_enable' = FALSE /\ skw_res' = KERN_SUCCESS
    /\ pc' = "idle"
    /\ UNCHANGED <<inits, diskVars, runVars, envVars, initLocals, linkedit_buf, file_buf, cr0>>

\* ---------------------------------------------------------- specification
\* The steps of readMachHeader.
ReadMachHeaderStep ==
    \/ \E io \in IoOutcomes : readMachHeader_read(io)
    \/ readMachHeader_mh64
    \/ readMachHeader_fat
    \/ \E alloc \in BOOLEAN, io \in IoOutcomes : readMachHeader_comp(alloc, io)
    \/ readMachHeader_default

\* The handle's operations.
Next ==
    \/ \E n \in 0..MaxPaths, early \in {"ok", "nocred", "nomem"} : init_enter(n, early)
    \/ \E p \in {NULL} \cup FileIds : init_lookup(p)
    \/ \E io \in IoOutcomes : readMachHeader_read(io)
    \/ readMachHeader_mh64
    \/ readMachHeader_fat
    \/ \E alloc \in BOOLEAN, io \in IoOutcomes : readMachHeader_comp(alloc, io)
    \/ readMachHeader_default
    \/ \E int80 \in Int80Addrs : init_candidate(int80)
    \/ \E alloc \in BOOLEAN, io \in IoOutcomes : init_finish(alloc, io)
    \/ deinit
    \/ \E slide \in {0} \cup (MappedAddrs \ {20480}), size \in {0, 1}, int80 \in Int80Addrs :
          getRunningAddresses(slide, size, int80)
    \/ \E symbol \in Symbols : solveSymbol(symbol)

Spec == Init /\ [][Next]_vars

\* A call that is running keeps running: a step of readMachHeader that is
\* enabled is eventually taken.
FairSpec == Spec /\ WF_vars(ReadMachHeaderStep)

\* The protection toggle.
NextCPU ==
    \/ \E enable \in BOOLEAN : setKernelWriting_enter(enable)
    \/ \E written \in BOOLEAN : setKernelWriting_setwp(written)
    \/ setKernelWriting_exit

SpecCPU == InitCPU /\ [][NextCPU]_vars

\* ------------------------------------------------------------------ claims
\* The symbol table as the handle's offsets place it in the loaded buffer.
SymbolOffset == symboltable_fileoff - linkedit_fileoff
StringOffset == stringtable_fileoff - linkedit_fileoff
Loaded == linkedit_buf.ptr # NULL /\ linkedit_buf.valid
LinkeditLen == Len(linkedit_buf.data)

\* Record k (from 0) lies in the buffer and its name ends inside it.
RecordInBuffer(k) ==
    LET p == SymbolOffset + k * NlistSize
    IN /\ p >= 0 /\ p + 1 < LinkeditLen
       /\ LET q == StringOffset + linkedit_buf.data[p + 1]
          IN /\ q >= 0 /\ q < LinkeditLen
             /\ \E z \in q..(LinkeditLen - 1) : linkedit_buf.data[z + 1] = 0

TableInBuffer ==
    /\ Loaded
    /\ SymbolOffset >= 0 /\ StringOffset >= 0
    /\ \A k \in 0..(symboltable_nr_symbols - 1) : RecordInBuffer(k)

\* The name of record k: the characters from its string index to the NUL.
RecordName(k) ==
    LET q == StringOffset + linkedit_buf.data[SymbolOffset + k * NlistSize + 1]
        z == CHOOSE e \in q..(LinkeditLen - 1) :
                /\ linkedit_buf.data[e + 1] = 0
                /\ \A j \in q..(e - 1) : linkedit_buf.data[j + 1] # 0
    IN SubSeq(linkedit_buf.data, q + 1, z)

RecordValue(k) == linkedit_buf.data[SymbolOffset + k * NlistSize + 2]

RecordsNamed(symbol) ==
    {k \in 0..(symboltable_nr_symbols - 1) : RecordName(k) = symbol}

FirstNamed(symbol) ==
    CHOOSE k \in RecordsNamed(symbol) : \A j \in RecordsNamed(symbol) : k <= j

\* No record of the table bears the name: the table is empty, or it lies in
\* the buffer and every record's name differs.
NoRecordNamed(symbol) ==
    \/ symboltable_nr_symbols = 0
    \/ TableInBuffer /\ RecordsNamed(symbol) = {}

\* C1: solveSymbol returns 0 whenever the link-metadata buffer is absent,
\* the symbol-table offset is 0, the slide is not known, or no record of
\* the table has the requested name (an empty table included).
Thm_C1_ResolveFailsClosed ==
    last.op = "solveSymbol" =>
        ((\/ linkedit_buf.ptr = NULL
          \/ symboltable_fileoff = 0
          \/ ~kaslr_slide_set
          \/ NoRecordNamed(last.symbol)) => last.ret = 0)

\* A lookup that passed the three early returns, scanned a table lying in
\* the buffer and found no record of that name.
Wit_C1_NoMatch ==
    /\ last.op = "solveSymbol" /\ last.ret = 0 /\ last.touched
    /\ linkedit_buf.ptr # NULL /\ symboltable_fileoff # 0 /\ kaslr_slide_set
    /\ symboltable_nr_symbols > 0 /\ TableInBuffer /\ RecordsNamed(last.symbol) = {}

\* C2: with the buffer loaded, the symbol-table offset recorded and the
\* slide computed without a supplied base from static text address S and
\* runtime text address R, solveSymbol returns V + (R - S) modulo the word
\* size, V being the value of the first record whose name is exactly the
\* requested one; a record that merely begins with the name is no match.
Thm_C2_ResolveAddsSlide ==
    (/\ last.op = "solveSymbol"
     /\ symboltable_fileoff # 0 /\ kaslr_slide_set /\ slide_src.base = 0
     /\ TableInBuffer /\ RecordsNamed(last.symbol) # {})
    => last.ret = Add(RecordValue(FirstNamed(last.symbol)),
                      Sub(slide_src.runtime, slide_src.static))

\* "fo" asked of a table whose first record is "foo": with S = 0x1000 and
\* R = 0x5000 the answer is the second record's 0x1020 + 0x4000.
Wit_C2_ExactMatchAfterPrefix ==
    /\ last.op = "solveSymbol" /\ last.symbol = <<102, 111>>
    /\ TableInBuffer /\ kaslr_slide_set /\ slide_src.base = 0
    /\ slide_src.static = 4096 /\ slide_src.runtime = 20480
    /\ FirstNamed(last.symbol) = 1
    /\ RecordName(0) = <<102, 111, 111>>
    /\ last.ret = 20512

\* C3: when the loop turns to the next candidate, and when init returns,
\* nothing acquired for a rejected candidate is still held: no vnode, no
\* VFS context, no decompressed file buffer.
Cex_C3_RejectedCandidatesReleased ==
    /\ pc = "init_loop" => (held.vnodes = {} /\ held.ctxts = {} /\ held.bufs = {})
    /\ last.op = "init" =>
          (last.held.vnodes = {} /\ last.held.ctxts = {} /\ last.held.bufs = {})

\* C5: init succeeds on the file-I/O path only if the positioned read moved
\* exactly linkedit_size words from fat_offset + linkedit_fileoff.
Cex_C5_SuccessMeansFullRead ==
    (last.op = "init" /\ last.ret = KERN_SUCCESS /\ last.linkedit.path = "file")
    => /\ last.linkedit.transferred = linkedit_size
       /\ last.linkedit.off = Add(fat_offset, linkedit_fileoff)

\* C6: the slide is known only if both text addresses are recorded and nonzero.
Cex_C6_SlideNeedsBothAddresses ==
    kaslr_slide_set => (disk_text_addr # 0 /\ running_text_addr # 0)

\* C7: once the slide is known, getRunningAddresses returns success without
\* base discovery or a header read and leaves the slide, the runtime text
\* address, the running header and the mapped size as they were.
Thm_C7_RunningAddressesIdempotent ==
    [][(/\ kaslr_slide_set
        /\ \E slide \in {0} \cup MappedAddrs, size \in {0, 1}, int80 \in Int80Addrs :
              getRunningAddresses(slide, size, int80))
       => /\ last'.ret = KERN_SUCCESS
          /\ ~last'.discovery /\ ~last'.headerRead
          /\ UNCHANGED <<kaslr_slide, kaslr_slide_set, running_text_addr, running_mh,
                         memory_size>>]_vars

\* A call without a base that ran no discovery: the slide was known already.
Wit_C7_SecondCall ==
    /\ last.op = "getRunningAddresses" /\ last.slide = 0
    /\ last.ret = KERN_SUCCESS /\ ~last.discovery
    /\ kaslr_slide_set /\ memory_size = 0

\* Words at the edges of the unsigned range.
EdgeWords == {0, 1, 2, 3, Mod \div 2 - 1, Mod \div 2, Mod - 2, Mod - 1}

\* C8: if the symbol-table or the string-table offset lies below the
\* __LINKEDIT offset, solveSymbol returns 0 and reads nothing from the
\* buffer; the guard fires exactly when the unsigned difference wrapped.
Thm_C8_UnderflowGuard ==
    /\ (/\ last.op = "solveSymbol"
        /\ \/ symboltable_fileoff < linkedit_fileoff
           \/ stringtable_fileoff < linkedit_fileoff)
       => (last.ret = 0 /\ ~last.touched)
    /\ \A a \in EdgeWords, b \in EdgeWords : Underflows(a, b) <=> a < b

\* A lookup that passed the three early returns and met a symbol-table
\* offset below the __LINKEDIT offset.
Wit_C8_GuardFired ==
    /\ last.op = "solveSymbol" /\ last.ret = 0
    /\ linkedit_buf.ptr # NULL /\ symboltable_fileoff # 0 /\ kaslr_slide_set
    /\ symboltable_fileoff < linkedit_fileoff
    /\ symboltable_nr_symbols > 0

InitPcs == {"init_loop", "rmh_read", "rmh_switch", "init_cand", "init_found"}

\* The header bears the build identifier of the image running at base.
SameBuild(hdr, base) ==
    /\ base # 0
    /\ getUUID(hdr.cmds) # <<>>
    /\ getUUID(hdr.cmds) = getUUID(RunningMemory[base].cmds)

\* C9: init probes the candidates in list order and stops at the first one
\* that opens, parses to a 64-bit header and, for the primary image, bears
\* the running kernel's identifier; later candidates are not opened, a
\* mismatch only moves on to the next candidate, and when none qualifies
\* init fails without parsing load commands or loading __LINKEDIT.
Thm_C9_FirstMatchWins ==
    [][/\ (pc = "init_cand" /\ pc' = "init_found")
          => /\ readError = KERN_SUCCESS /\ machHeader.magic = "MH64"
             /\ isKernel => \E int80 \in Int80Addrs :
                                /\ init_candidate(int80)
                                /\ SameBuild(machHeader, findKernelBase(int80))
       /\ (pc = "init_cand" /\ pc' = "init_loop")
          => /\ i' = i + 1
             /\ \/ readError # KERN_SUCCESS
                \/ /\ isKernel
                   /\ \E int80 \in Int80Addrs :
                         /\ init_candidate(int80)
                         /\ ~SameBuild(machHeader, findKernelBase(int80))
       /\ (pc \in InitPcs /\ ~(found /\ pc' = "idle"))
          => UNCHANGED <<parsedVars, linkedit_buf>>
       /\ (pc \in InitPcs /\ pc' = "idle")
          => LET lg == last'.log
             IN /\ \A k \in 1..Len(lg) : lg[k].idx = k - 1
                /\ \A k \in 1..(Len(lg) - 1) : lg[k].outcome # "accepted"
                /\ \A k \in 1..Len(lg) : lg[k].outcome = "mismatch" => isKernel
                /\ IF last'.found
                   THEN /\ Len(lg) = last'.winner + 1 /\ Len(lg) <= last'.num
                        /\ lg[Len(lg)].outcome = "accepted"
                   ELSE /\ Len(lg) = last'.num
                        /\ \A k \in 1..Len(lg) : lg[k].outcome # "accepted"
                        /\ last'.ret = KERN_FAILURE]_vars

\* A primary-image scan that skipped a mismatching first candidate and
\* accepted the second.
Wit_C9_SkipThenAccept ==
    /\ last.op = "init" /\ last.found /\ last.winner = 1
    /\ last.log[1].outcome = "mismatch" /\ last.log[2].outcome = "accepted"

\* C10: every call of readMachHeader returns, whatever the file holds; it is
\* stated of the calls whose allocations and reads all go well.
Cex_C10_ReadMachHeaderReturns ==
    (pc \in {"rmh_read", "rmh_switch"} /\ ~io_faulted)
        ~> (pc \notin {"rmh_read", "rmh_switch"} \/ io_faulted)

\* C4: an enabling call writes CR0 with interrupts already disabled; a
\* disabling call re-enables interrupts only in the step after the CR0
\* write; and a call that reports failure returns with interrupts enabled.
Thm_C4_InterruptOrdering ==
    [][/\ (pc = "skw_wp" /\ skw_arg) => ~intr_enabled
       /\ (~intr_enabled /\ intr_enabled') => pc = "skw_sti"
       /\ (pc = "skw_sti" /\ pc' = "idle" /\ last'.ret # KERN_SUCCESS) => intr_enabled']_vars

\* An enabling call whose CR0 write did not take: failure, interrupts on.
Wit_C4_FailedEnable ==
    /\ last.op = "setKernelWriting" /\ last.enable /\ last.ret = KERN_FAILURE
    /\ intr_enabled /\ "WP" \in cr0

====
